---- MODULE Spec2Model ----
(***************************************************************************)
(* Model of the job core of SystemGo (src/system/job.go): jobs, their      *)
(* derived state, the statement-level interleaving of Run() with the       *)
(* dependency-waiter goroutines it spawns, execute() and mergeWith().      *)
(***************************************************************************)
EXTENDS Naturals, Sequences, FiniteSets, TLC

\* ------------------------------------------------------------------ bounds
\* How many Run() calls a behaviour makes, over all jobs; a job whose Run()
\* has returned may be run again.
MaxRuns == 3
\* How many mergeWith calls a behaviour makes.
MaxMerges == 2
\* How many Define/Start/Stop calls a behaviour makes on the service unit.
MaxCalls == 4

\* ------------------------------------------------------------------ values
Jobs == {"A", "B", "C"}
Units == {"u1", "u2"}
NoJob == "none"

\* jobType (job.go:41-46) and jobState (job.go:31-36)
JobTypes == {"start", "stop", "reload", "restart"}
JobStates == {"waiting", "running", "success", "failed"}

\* error values: nil, the two scheduling errors, and an error returned by a
\* unit operation
Nil == "nil"
ErrDepFail == "ErrDepFail"
ErrUnmergeable == "ErrUnmergeable"
ErrOp == "ErrOp"

\* a channel is identified by the job and the run that made it; the nil
\* channel is the empty tuple
NilChan == <<>>
Chan(j, n) == <<j, n>>

VARIABLES
    typ,        \* j.typ
    unit,       \* j.unit
    wants, requires, conflicts,          \* outgoing relation sets
    wantedBy, requiredBy, conflictedBy,  \* incoming relation sets
    after, before,                       \* ordering sets
    executed,   \* j.executed
    waitch,     \* j.waitch: a channel or NilChan
    err,        \* j.err
    closed,     \* the channels close() has been called on
    unitJob,    \* u.job: the unit's active-job reference
    pc,         \* where the goroutine calling j.Run() stands
    runErr,     \* Run()'s named result err, shared with its waiter goroutines
    execErr,    \* execute()'s named result err
    runs,       \* how many times Run() was called on j
    retVal,     \* what the last finished Run() of j returned ("none" before)
    ops,        \* the unit operations the current/last Run() of j invoked, each with its result
    wpc,        \* wpc[j][d]: where j's waiter goroutine for dependency d stands
    wch,        \* wch[j][d]: the channel that goroutine receives from
    wsaw,       \* wsaw[j][d]: whether d's Run() had begun when the goroutine called d.Wait()
    failedAtJoin, \* the required jobs that were failed when wg.Wait() of j's Run() returned
    merges,     \* how many mergeWith calls were made
    mergeRet,   \* the last mergeWith call: its receiver and argument, their types at the call, its result
    definition, \* sv.Definition of the service unit
    cmd,        \* sv.Cmd: NilCmd until Define succeeds
    process,    \* sv.Cmd.Process: NilProc until the command is launched
    processState, \* sv.Cmd.ProcessState: NilState until Wait has returned
    osProc,     \* the operating system's view of the process sv.Cmd launched
    waitPending, \* a Cmd.Wait() call is outstanding
    everLaunched, \* whether any Start() of the unit has launched a process
    oneshotRet, \* what the last Start() of a oneshot unit returned from Cmd.Run()
    svcRet,     \* the last Define/Start/Stop call: its name, argument and result
    ncalls      \* how many Define/Start/Stop calls were made

jobFields == <<typ, unit, wants, requires, conflicts, wantedBy, requiredBy,
               conflictedBy, after, before>>
relVars == <<wants, requires, conflicts, wantedBy, requiredBy, conflictedBy,
             after, before>>
runVars == <<executed, waitch, err, closed, unitJob, pc, runErr, execErr,
             runs, retVal, ops, wpc, wch, wsaw, failedAtJoin>>
mergeVars == <<merges, mergeRet>>
svcVars == <<definition, cmd, process, processState, osProc, waitPending,
             everLaunched, oneshotRet, svcRet, ncalls>>
vars == <<jobFields, runVars, mergeVars, svcVars>>

\* ------------------------------------------------------------------ job.go:75-109
\* IsRunning (job.go:75-77)
IsRunning(j) == waitch[j] # NilChan

\* State (job.go:98-109), evaluated in one step
State(j) ==
    IF IsRunning(j) THEN "running"
    ELSE IF ~executed[j] THEN "waiting"
    ELSE IF err[j] = Nil THEN "success"
    ELSE "failed"

\* Success, Failed (job.go:79-85)
Success(j) == State(j) = "success"
Failed(j) == State(j) = "failed"

\* isOrphan (job.go:94-96)
isOrphan(j) == wantedBy[j] = {} /\ requiredBy[j] = {} /\ conflictedBy[j] = {}

\* ------------------------------------------------------------------ job.go:111-153
\* the operation execute() invokes first for a job type (job.go:156-167)
FirstOp(t) == IF t = "start" THEN "start"
              ELSE IF t = "reload" THEN "reload"
              ELSE "stop"

\* the results a unit operation can return: nil or an error
OpResults == {Nil, ErrOp}

\* the waiter goroutines of j that have not called wg.Done()
Pending(j) == {d \in Jobs : wpc[j][d] \notin {"none", "done"}}

\* the Run() calls made so far
TotalRuns == runs["A"] + runs["B"] + runs["C"]

\* job.go:118: j.waitch = make(chan struct{})
Run118(j) ==
    /\ pc[j] = "idle"
    /\ TotalRuns < MaxRuns
    /\ runs' = [runs EXCEPT ![j] = @ + 1]
    /\ waitch' = [waitch EXCEPT ![j] = Chan(j, runs[j] + 1)]
    /\ runErr' = [runErr EXCEPT ![j] = Nil]
    /\ execErr' = [execErr EXCEPT ![j] = Nil]
    /\ retVal' = [retVal EXCEPT ![j] = "none"]
    /\ ops' = [ops EXCEPT ![j] = <<>>]
    /\ wpc' = [wpc EXCEPT ![j] = [d \in Jobs |-> "none"]]
    /\ wch' = [wch EXCEPT ![j] = [d \in Jobs |-> NilChan]]
    /\ wsaw' = [wsaw EXCEPT ![j] = [d \in Jobs |-> FALSE]]
    /\ failedAtJoin' = [failedAtJoin EXCEPT ![j] = {}]
    /\ pc' = [pc EXCEPT ![j] = "r120"]
    /\ UNCHANGED <<jobFields, executed, err, closed, unitJob, mergeVars, svcVars>>

\* job.go:120: j.unit.job = j
Run120(j) ==
    /\ pc[j] = "r120"
    /\ unitJob' = [unitJob EXCEPT ![unit[j]] = j]
    /\ pc' = [pc EXCEPT ![j] = "r123"]
    /\ UNCHANGED <<jobFields, executed, waitch, err, closed, runErr, execErr,
                   runs, retVal, ops, wpc, wch, wsaw, failedAtJoin, mergeVars, svcVars>>

\* job.go:122-135: one waiter goroutine per job in j.requires
Run123(j) ==
    /\ pc[j] = "r123"
    /\ wpc' = [wpc EXCEPT ![j] =
                 [d \in Jobs |-> IF d \in requires[j] THEN "w88" ELSE "none"]]
    /\ pc' = [pc EXCEPT ![j] = "r136"]
    /\ UNCHANGED <<jobFields, executed, waitch, err, closed, unitJob, runErr,
                   execErr, runs, retVal, ops, wch, wsaw, failedAtJoin, mergeVars, svcVars>>

waiterRest == <<jobFields, executed, waitch, err, closed, unitJob, pc, execErr,
                runs, retVal, ops, failedAtJoin, mergeVars, svcVars>>

\* job.go:88: if j.IsRunning(), in the waiter's dep.Wait() (job.go:128)
Wait88(j, d) ==
    /\ wpc[j][d] = "w88"
    /\ wpc' = [wpc EXCEPT ![j][d] = IF IsRunning(d) THEN "w89" ELSE "s100"]
    /\ wsaw' = [wsaw EXCEPT ![j][d] = runs[d] > 0]
    /\ UNCHANGED <<waiterRest, runErr, wch>>

\* job.go:89: the operand of <-j.waitch is read again
Wait89(j, d) ==
    /\ wpc[j][d] = "w89"
    /\ wch' = [wch EXCEPT ![j][d] = waitch[d]]
    /\ wpc' = [wpc EXCEPT ![j][d] = "recv"]
    /\ UNCHANGED <<waiterRest, runErr, wsaw>>

\* job.go:89: the receive returns once the channel is closed; a receive from
\* the nil channel never returns
WaitRecv(j, d) ==
    /\ wpc[j][d] = "recv"
    /\ wch[j][d] # NilChan
    /\ wch[j][d] \in closed
    /\ wpc' = [wpc EXCEPT ![j][d] = "s100"]
    /\ UNCHANGED <<waiterRest, runErr, wch, wsaw>>

\* job.go:100: case j.IsRunning(), in the waiter's dep.Success() (job.go:129)
State100(j, d) ==
    /\ wpc[j][d] = "s100"
    /\ wpc' = [wpc EXCEPT ![j][d] = IF IsRunning(d) THEN "w131" ELSE "s102"]
    /\ UNCHANGED <<waiterRest, runErr, wch, wsaw>>

\* job.go:102: case !j.executed
State102(j, d) ==
    /\ wpc[j][d] = "s102"
    /\ wpc' = [wpc EXCEPT ![j][d] = IF ~executed[d] THEN "w131" ELSE "s104"]
    /\ UNCHANGED <<waiterRest, runErr, wch, wsaw>>

\* job.go:104: case j.err == nil; on success the goroutine calls wg.Done()
State104(j, d) ==
    /\ wpc[j][d] = "s104"
    /\ wpc' = [wpc EXCEPT ![j][d] = IF err[d] = Nil THEN "done" ELSE "w131"]
    /\ UNCHANGED <<waiterRest, runErr, wch, wsaw>>

\* job.go:130-133: err = ErrDepFail, then wg.Done()
Write131(j, d) ==
    /\ wpc[j][d] = "w131"
    /\ runErr' = [runErr EXCEPT ![j] = ErrDepFail]
    /\ wpc' = [wpc EXCEPT ![j][d] = "done"]
    /\ UNCHANGED <<waiterRest, wch, wsaw>>

\* job.go:136-142: wg.Wait(), then the return on a dependency failure
Join136(j) ==
    /\ pc[j] = "r136"
    /\ Pending(j) = {}
    /\ IF runErr[j] # Nil
         THEN /\ pc' = [pc EXCEPT ![j] = "idle"]
              /\ retVal' = [retVal EXCEPT ![j] = runErr[j]]
         ELSE /\ pc' = [pc EXCEPT ![j] = "x156"]
              /\ UNCHANGED retVal
    /\ failedAtJoin' = [failedAtJoin EXCEPT ![j] = {d \in requires[j] : Failed(d)}]
    /\ UNCHANGED <<jobFields, executed, waitch, err, closed, unitJob, runErr,
                   execErr, runs, ops, wpc, wch, wsaw, mergeVars, svcVars>>

\* execute() with restart's unit start invoked whatever unit stop returned
Exec156_startAfterFailedStop(j) ==
    /\ pc[j] = "x156"
    /\ \E r \in OpResults :
         /\ execErr' = [execErr EXCEPT ![j] = r]
         /\ ops' = [ops EXCEPT ![j] = Append(@, [op |-> FirstOp(typ[j]), ret |-> r])]
         /\ pc' = [pc EXCEPT ![j] = IF typ[j] = "restart" THEN "x165" ELSE "x171"]
    /\ UNCHANGED <<jobFields, executed, waitch, err, closed, unitJob, runErr,
                   runs, retVal, wpc, wch, wsaw, failedAtJoin, mergeVars, svcVars>>

\* job.go:156-167: the switch on j.typ and the first unit operation
Exec156(j) ==
    /\ pc[j] = "x156"
    /\ \E r \in OpResults :
         /\ execErr' = [execErr EXCEPT ![j] = r]
         /\ ops' = [ops EXCEPT ![j] = Append(@, [op |-> FirstOp(typ[j]), ret |-> r])]
         /\ pc' = [pc EXCEPT ![j] =
                     IF typ[j] = "restart" /\ r = Nil THEN "x165" ELSE "x171"]
    /\ UNCHANGED <<jobFields, executed, waitch, err, closed, unitJob, runErr,
                   runs, retVal, wpc, wch, wsaw, failedAtJoin, mergeVars, svcVars>>

\* job.go:165: restart's unit start, after its stop succeeded
Exec165(j) ==
    /\ pc[j] = "x165"
    /\ \E r \in OpResults :
         /\ execErr' = [execErr EXCEPT ![j] = r]
         /\ ops' = [ops EXCEPT ![j] = Append(@, [op |-> "start", ret |-> r])]
         /\ pc' = [pc EXCEPT ![j] = "x171"]
    /\ UNCHANGED <<jobFields, executed, waitch, err, closed, unitJob, runErr,
                   runs, retVal, wpc, wch, wsaw, failedAtJoin, mergeVars, svcVars>>

\* job.go:171: j.executed = true
Exec171(j) ==
    /\ pc[j] = "x171"
    /\ executed' = [executed EXCEPT ![j] = TRUE]
    /\ pc' = [pc EXCEPT ![j] = "x172"]
    /\ UNCHANGED <<jobFields, waitch, err, closed, unitJob, runErr, execErr,
                   runs, retVal, ops, wpc, wch, wsaw, failedAtJoin, mergeVars, svcVars>>

\* job.go:172-174 and 145: j.err = err; Run's err = j.execute()
Exec172(j) ==
    /\ pc[j] = "x172"
    /\ err' = [err EXCEPT ![j] = execErr[j]]
    /\ runErr' = [runErr EXCEPT ![j] = execErr[j]]
    /\ pc' = [pc EXCEPT ![j] = "r147"]
    /\ UNCHANGED <<jobFields, executed, waitch, closed, unitJob, execErr,
                   runs, retVal, ops, wpc, wch, wsaw, failedAtJoin, mergeVars, svcVars>>

\* job.go:147: close(j.waitch)
Run147(j) ==
    /\ pc[j] = "r147"
    /\ closed' = closed \cup {waitch[j]}
    /\ pc' = [pc EXCEPT ![j] = "r148"]
    /\ UNCHANGED <<jobFields, executed, waitch, err, unitJob, runErr, execErr,
                   runs, retVal, ops, wpc, wch, wsaw, failedAtJoin, mergeVars, svcVars>>

\* job.go:148: j.waitch = nil
Run148(j) ==
    /\ pc[j] = "r148"
    /\ waitch' = [waitch EXCEPT ![j] = NilChan]
    /\ pc' = [pc EXCEPT ![j] = "r150"]
    /\ UNCHANGED <<jobFields, executed, err, closed, unitJob, runErr, execErr,
                   runs, retVal, ops, wpc, wch, wsaw, failedAtJoin, mergeVars, svcVars>>

\* job.go:150-152: j.unit.job = nil; return
Run150(j) ==
    /\ pc[j] = "r150"
    /\ unitJob' = [unitJob EXCEPT ![unit[j]] = NoJob]
    /\ retVal' = [retVal EXCEPT ![j] = runErr[j]]
    /\ pc' = [pc EXCEPT ![j] = "idle"]
    /\ UNCHANGED <<jobFields, executed, waitch, err, closed, runErr, execErr,
                   runs, ops, wpc, wch, wsaw, failedAtJoin, mergeVars, svcVars>>

\* ------------------------------------------------------------------ service unit (src/unnamed/part_000)
\* DEFAULT_TYPE (part_000:12)
DEFAULT_TYPE == "simple"

\* the sub states (part_000:14-31)
SubStates == {"dead", "startPre", "start", "startPost", "running", "exited",
              "reload", "stop", "stopSigabrt", "stopSigterm", "stopSigkill",
              "stopPost", "finalSigterm", "finalSigkill", "failed", "autoRestart"}

\* supported (part_000:33-40)
supported == ("oneshot" :> TRUE) @@ ("simple" :> TRUE) @@ ("forking" :> FALSE)
             @@ ("dbus" :> FALSE) @@ ("notify" :> FALSE) @@ ("idle" :> FALSE)

\* Supported (part_000:60-62): a type missing from the map is not supported
Supported(t) == IF t \in DOMAIN supported THEN supported[t] ELSE FALSE

\* the errors of package unit that the service unit returns or panics with
ErrNotSet == "not set"
ErrNotSupported == "not supported"
ErrNotStarted == "ErrNotStarted"
ErrNotParsed == "ErrNotParsed"
ErrParse == "ErrParse"
ErrAlreadyStarted == "exec: already started"
ErrMulti == "MultiError"
\* a call that did not return: a panic, with its value
Panic(v) == <<"panic", v>>
Returned_(v) == <<"return", v>>

NilCmd == "nil"
NilProc == "nil"
NilState == "nil"

\* the ways a process ends: exit code 0, another exit code, killed by a signal
Ended == {"exit0", "exitN", "signaled"}

\* os.ProcessState.Exited and Success, as part_000:135 calls them
Exited(ps) == ps \in {"exit0", "exitN"}
ProcSuccess(ps) == ps = "exit0"

\* the zero Definition (part_000:49-58)
ZeroDefinition == [Type |-> "", ExecStart |-> "", RemainAfterExit |-> FALSE]

\* the definition texts Define is given: whether the text parses, the Type
\* it declares ("" when it declares none), ExecStart and RemainAfterExit
Texts ==
    [parses : {TRUE}, Type : {"", "simple", "oneshot", "forking", "bogus"},
     ExecStart : {"", "/bin/daemon -f"}, RemainAfterExit : BOOLEAN]
    \cup {[parses |-> FALSE, Type |-> "", ExecStart |-> "",
           RemainAfterExit |-> FALSE]}

NoText == [parses |-> FALSE, Type |-> "", ExecStart |-> "", RemainAfterExit |-> FALSE]

\* unit.ParseDefinition: the fields the text declares are stored in def
ParseDefinition(text, def) ==
    [Type |-> IF text.Type = "" THEN def.Type ELSE text.Type,
     ExecStart |-> text.ExecStart,
     RemainAfterExit |-> text.RemainAfterExit]

\* part_000:66-67 and 69: the Definition Define has parsed
Parsed(text) == ParseDefinition(text, [ZeroDefinition EXCEPT !.Type = DEFAULT_TYPE])

\* part_000:73-82: the switch that fills the MultiError; only its first
\* true case runs
Validate(def) ==
    IF def.ExecStart = "" THEN << <<"ExecStart", ErrNotSet>> >>
    ELSE IF ~Supported(def.Type) THEN << <<"Type", ErrNotSupported>> >>
    ELSE <<>>

\* Define (part_000:65-94)
Define(text) ==
    /\ ncalls < MaxCalls
    /\ ncalls' = ncalls + 1
    /\ IF ~text.parses
         THEN /\ svcRet' = [op |-> "Define", text |-> text, merr |-> <<>>,
                            ret |-> Returned_(ErrParse)]
              /\ UNCHANGED <<definition, cmd, process, processState, osProc,
                             waitPending>>
         ELSE IF Validate(Parsed(text)) # <<>>
         THEN /\ svcRet' = [op |-> "Define", text |-> text,
                            merr |-> Validate(Parsed(text)),
                            ret |-> Returned_(ErrMulti)]
              /\ UNCHANGED <<definition, cmd, process, processState, osProc,
                             waitPending>>
         ELSE /\ svcRet' = [op |-> "Define", text |-> text, merr |-> <<>>,
                            ret |-> Returned_(Nil)]
              /\ definition' = Parsed(text)
              /\ cmd' = "cmd"
              /\ process' = NilProc
              /\ processState' = NilState
              /\ osProc' = "none"
              /\ waitPending' = FALSE
    /\ UNCHANGED <<everLaunched, oneshotRet, jobFields, runVars, mergeVars>>

\* Start (part_000:97-109)
Start ==
    /\ ncalls < MaxCalls
    /\ ncalls' = ncalls + 1
    /\ IF definition.Type \notin {"simple", "oneshot"}
         THEN \* part_000:106-107
              /\ svcRet' = [op |-> "Start", text |-> NoText, merr |-> <<>>,
                            ret |-> Panic("Unknown service type")]
              /\ UNCHANGED <<process, osProc, waitPending, everLaunched, oneshotRet>>
         ELSE IF process # NilProc
         THEN \* Cmd.Start refuses a command that was launched before
              /\ svcRet' = [op |-> "Start", text |-> NoText, merr |-> <<>>,
                            ret |-> Returned_(ErrAlreadyStarted)]
              /\ UNCHANGED <<process, osProc, waitPending, everLaunched, oneshotRet>>
         ELSE \/ \* the launch fails
                 /\ svcRet' = [op |-> "Start", text |-> NoText, merr |-> <<>>,
                               ret |-> Returned_(ErrOp)]
                 /\ UNCHANGED <<process, osProc, waitPending, everLaunched, oneshotRet>>
              \/ \* part_000:100-101: launched, and go sv.Cmd.Wait();
                 \* part_000:105: launched, and Cmd.Run waits itself
                 /\ process' = "proc"
                 /\ osProc' = "alive"
                 /\ waitPending' = TRUE
                 /\ everLaunched' = TRUE
                 /\ oneshotRet' = "none"
                 /\ svcRet' = [op |-> "Start", text |-> NoText, merr |-> <<>>,
                               ret |-> IF definition.Type = "simple"
                                         THEN Returned_(Nil)
                                         ELSE <<"blocked", "Cmd.Run">>]
    /\ UNCHANGED <<definition, cmd, processState, jobFields, runVars, mergeVars>>

\* Stop (part_000:112-118)
Stop ==
    /\ ncalls < MaxCalls
    /\ ncalls' = ncalls + 1
    /\ IF cmd = NilCmd
         THEN \* sv.Cmd.Process with sv.Cmd == nil
              /\ svcRet' = [op |-> "Stop", text |-> NoText, merr |-> <<>>,
                            ret |-> Panic("nil pointer dereference")]
              /\ UNCHANGED osProc
         ELSE IF process = NilProc
         THEN /\ svcRet' = [op |-> "Stop", text |-> NoText, merr |-> <<>>,
                            ret |-> Returned_(ErrNotStarted)]
              /\ UNCHANGED osProc
         ELSE \* Process.Kill()
              /\ osProc' = IF osProc = "alive" THEN "signaled" ELSE osProc
              /\ svcRet' = [op |-> "Stop", text |-> NoText, merr |-> <<>>,
                            ret |-> IF processState = NilState
                                      THEN Returned_(Nil) ELSE Returned_(ErrOp)]
    /\ UNCHANGED <<definition, cmd, process, processState, waitPending,
                   everLaunched, oneshotRet, jobFields, runVars, mergeVars>>

\* the launched process ends by itself or is killed from outside
ProcessEnds ==
    /\ osProc = "alive"
    /\ osProc' \in Ended
    /\ UNCHANGED <<definition, cmd, process, processState, waitPending,
                   everLaunched, oneshotRet, svcRet, ncalls, jobFields, runVars,
                   mergeVars>>

\* the outstanding Cmd.Wait() returns (part_000:101, or inside Cmd.Run,
\* part_000:105): it stores the ProcessState
WaitReturns ==
    /\ waitPending
    /\ osProc \in Ended
    /\ processState' = osProc
    /\ waitPending' = FALSE
    /\ oneshotRet' = IF definition.Type = "oneshot"
                       THEN (IF osProc = "exit0" THEN Nil ELSE ErrOp)
                       ELSE oneshotRet
    /\ UNCHANGED <<definition, cmd, process, osProc, everLaunched, svcRet,
                   ncalls, jobFields, runVars, mergeVars>>

\* Sub without the RemainAfterExit test
Sub_ignoresRemain ==
    IF cmd = NilCmd THEN Panic(ErrNotParsed)
    ELSE IF process = NilProc THEN Returned_("dead")
    ELSE IF processState = NilState THEN Returned_("running")
    ELSE IF Exited(processState) \/ ProcSuccess(processState)
      THEN Returned_("exited")
    ELSE Returned_("failed")

\* Sub (part_000:121-145)
Sub ==
    IF cmd = NilCmd THEN Panic(ErrNotParsed)
    ELSE IF process = NilProc THEN Returned_("dead")
    ELSE IF processState = NilState THEN Returned_("running")
    ELSE IF Exited(processState) \/ ProcSuccess(processState)
      THEN (IF definition.RemainAfterExit THEN Returned_("exited")
            ELSE Returned_("dead"))
    ELSE Returned_("failed")

\* the switch of Active (part_000:150-165)
Activation(sub) ==
    IF sub = "dead" THEN Returned_("Inactive")
    ELSE IF sub = "failed" THEN Returned_("Failed")
    ELSE IF sub = "reload" THEN Returned_("Reloading")
    ELSE IF sub \in {"running", "exited"} THEN Returned_("Active")
    ELSE IF sub \in {"start", "startPre", "startPost", "autoRestart"}
      THEN Returned_("Activating")
    ELSE IF sub \in {"stop", "stopSigabrt", "stopPost", "stopSigkill",
                     "stopSigterm", "finalSigkill", "finalSigterm"}
      THEN Returned_("Deactivating")
    ELSE Panic("Unknown service sub state")

\* Active (part_000:148-166): a panic of Sub propagates
Active == IF Sub[1] = "panic" THEN Sub ELSE Activation(Sub[2])

\* a unit value before Define
FreshService ==
    /\ definition = ZeroDefinition
    /\ cmd = NilCmd
    /\ process = NilProc
    /\ processState = NilState
    /\ osProc = "none"
    /\ waitPending = FALSE
    /\ everLaunched = FALSE
    /\ oneshotRet = "none"
    /\ svcRet = [op |-> "none", text |-> NoText, merr |-> <<>>,
                 ret |-> Returned_(Nil)]
    /\ ncalls = 0

\* ------------------------------------------------------------------ newJob and the initial states
EmptyRel == [j \in Jobs |-> {}]

\* the jobs as newJob (job.go:48-69) leaves them, no Run() called yet
FreshRun ==
    /\ executed = [j \in Jobs |-> FALSE]
    /\ waitch = [j \in Jobs |-> NilChan]
    /\ err = [j \in Jobs |-> Nil]
    /\ closed = {}
    /\ unitJob = [u \in Units |-> NoJob]
    /\ pc = [j \in Jobs |-> "idle"]
    /\ runErr = [j \in Jobs |-> Nil]
    /\ execErr = [j \in Jobs |-> Nil]
    /\ runs = [j \in Jobs |-> 0]
    /\ retVal = [j \in Jobs |-> "none"]
    /\ ops = [j \in Jobs |-> <<>>]
    /\ wpc = [j \in Jobs |-> [d \in Jobs |-> "none"]]
    /\ wch = [j \in Jobs |-> [d \in Jobs |-> NilChan]]
    /\ wsaw = [j \in Jobs |-> [d \in Jobs |-> FALSE]]
    /\ failedAtJoin = [j \in Jobs |-> {}]
    /\ merges = 0
    /\ mergeRet = [j |-> NoJob, other |-> NoJob, was |-> "none", with |-> "none",
                   ret |-> "none"]

\* the inverse of a relation
Inverse(rel) == [j \in Jobs |-> {k \in Jobs : j \in rel[k]}]

\* Three jobs wired by the dependency graph: A requires B or both B and C,
\* B may require C; B and C are jobs for the same unit.
Init ==
    /\ typ \in {[A |-> "restart", B |-> "start", C |-> "stop"],
                [A |-> "reload", B |-> "restart", C |-> "start"]}
    /\ unit = [A |-> "u1", B |-> "u2", C |-> "u2"]
    /\ requires \in {r \in [Jobs -> SUBSET Jobs] :
                       /\ r["A"] \in {{"B"}, {"B", "C"}}
                       /\ r["B"] \subseteq {"C"}
                       /\ r["C"] = {}}
    /\ requiredBy = Inverse(requires)
    /\ wants = EmptyRel /\ wantedBy = EmptyRel
    /\ conflicts = EmptyRel /\ conflictedBy = EmptyRel
    /\ after = EmptyRel /\ before = EmptyRel
    /\ FreshRun
    /\ FreshService

\* ------------------------------------------------------------------ job.go:177-219
\* a table with one more entry, reload merged into reload
mergeTable_reloadReload ==
    ("start" :> ("start" :> "start" @@ "reload" :> "reload" @@ "restart" :> "restart"))
    @@ ("reload" :> ("start" :> "reload" @@ "reload" :> "reload" @@ "restart" :> "restart"))
    @@ ("restart" :> ("start" :> "restart" @@ "reload" :> "restart"))

\* the table without the restart entry of the reload row
mergeTable_reloadRefusesRestart ==
    ("start" :> ("start" :> "start" @@ "reload" :> "reload" @@ "restart" :> "restart"))
    @@ ("reload" :> ("start" :> "reload"))
    @@ ("restart" :> ("start" :> "restart" @@ "reload" :> "restart"))

\* mergeTable (job.go:177-194): existing type -> incoming type -> merged type
mergeTable ==
    ("start" :> ("start" :> "start" @@ "reload" :> "reload" @@ "restart" :> "restart"))
    @@ ("reload" :> ("start" :> "reload" @@ "restart" :> "restart"))
    @@ ("restart" :> ("start" :> "restart" @@ "reload" :> "restart"))

\* job.go:197: t, ok := mergeTable[j.typ][other.typ]; a missing row is a nil
\* map, and a lookup in it finds nothing
MergeOk(a, b) == a \in DOMAIN mergeTable /\ b \in DOMAIN mergeTable[a]

\* j.typ = t placed before the ok test: a failed lookup yields the zero jobType
MergedTyp_beforeCheck(a, b) == IF MergeOk(a, b) THEN mergeTable[a][b] ELSE "start"

\* job.go:197-202: the type of j after j.mergeWith(other); the early return
\* leaves it as it was
MergedTyp(a, b) == IF MergeOk(a, b) THEN mergeTable[a][b] ELSE a

\* the six relation sets mergeWith unions (job.go:204-212)
RelKinds == {"wantedBy", "requiredBy", "conflictedBy", "wants", "requires", "conflicts"}

\* the six relation sets of a job, by name
Rel(j) == [wantedBy |-> wantedBy[j], requiredBy |-> requiredBy[j],
           conflictedBy |-> conflictedBy[j], wants |-> wants[j],
           requires |-> requires[j], conflicts |-> conflicts[j]]

\* the map literal with two of its values exchanged
PairedWith_swapped(k) == IF k = "wants" THEN "wantedBy"
                         ELSE IF k = "wantedBy" THEN "wants"
                         ELSE k

\* job.go:204-212: the set of other that a set of j is paired with
PairedWith(k) == k

\* set.Put: adding a member that is already in the set changes nothing
Put(s, x) == s \cup {x}

\* job.go:213-215: for oJob := range *oSet { jSet.Put(oJob) }
RECURSIVE PutAll(_, _)
PutAll(jSet, oSet) ==
    IF oSet = {} THEN jSet
    ELSE LET x == CHOOSE y \in oSet : TRUE
         IN PutAll(Put(jSet, x), oSet \ {x})

\* job.go:198-216: the relation sets of j after j.mergeWith(other); the
\* early return leaves them as they were
MergedRel(j, other) ==
    IF MergeOk(typ[j], typ[other])
      THEN [k \in RelKinds |-> PutAll(Rel(j)[k], Rel(other)[PairedWith(k)])]
      ELSE Rel(j)

\* mergeWith (job.go:196-219)
mergeWith(j, other) ==
    /\ merges < MaxMerges
    /\ merges' = merges + 1
    /\ mergeRet' = [j |-> j, other |-> other, was |-> typ[j], with |-> typ[other],
                    ret |-> IF MergeOk(typ[j], typ[other]) THEN Nil ELSE ErrUnmergeable]
    /\ typ' = [typ EXCEPT ![j] = MergedTyp(typ[j], typ[other])]
    /\ wantedBy' = [wantedBy EXCEPT ![j] = MergedRel(j, other).wantedBy]
    /\ requiredBy' = [requiredBy EXCEPT ![j] = MergedRel(j, other).requiredBy]
    /\ conflictedBy' = [conflictedBy EXCEPT ![j] = MergedRel(j, other).conflictedBy]
    /\ wants' = [wants EXCEPT ![j] = MergedRel(j, other).wants]
    /\ requires' = [requires EXCEPT ![j] = MergedRel(j, other).requires]
    /\ conflicts' = [conflicts EXCEPT ![j] = MergedRel(j, other).conflicts]
    /\ UNCHANGED <<unit, after, before>>
    /\ UNCHANGED <<runVars, svcVars>>

\* one relation set holding one member, or no relation at all
OneRel(k, m) == [x \in RelKinds |-> IF x = k THEN {m} ELSE {}]
Profiles(j) == {OneRel(k, m) : k \in RelKinds, m \in Jobs \ {j}}
                 \cup {[x \in RelKinds |-> {}]}

\* Jobs not yet run, A and B of every type, each with at most one relation
\* to another job; C is a start job with no relations.
InitMerge ==
    /\ \E ta \in JobTypes, tb \in JobTypes :
         typ = [A |-> ta, B |-> tb, C |-> "start"]
    /\ unit = [A |-> "u1", B |-> "u1", C |-> "u2"]
    /\ \E pa \in Profiles("A"), pb \in Profiles("B") :
         LET p == [A |-> pa, B |-> pb, C |-> [x \in RelKinds |-> {}]]
         IN /\ wantedBy = [j \in Jobs |-> p[j].wantedBy]
            /\ requiredBy = [j \in Jobs |-> p[j].requiredBy]
            /\ conflictedBy = [j \in Jobs |-> p[j].conflictedBy]
            /\ wants = [j \in Jobs |-> p[j].wants]
            /\ requires = [j \in Jobs |-> p[j].requires]
            /\ conflicts = [j \in Jobs |-> p[j].conflicts]
    /\ after = [A |-> {"C"}, B |-> {}, C |-> {}]
    /\ before = [A |-> {}, B |-> {"C"}, C |-> {"A"}]
    /\ FreshRun
    /\ FreshService

NextMerge == \E j \in Jobs : \E other \in Jobs : mergeWith(j, other)

SpecMerge == InitMerge /\ [][NextMerge]_vars

RunStep(j) ==
    \/ Run118(j) \/ Run120(j) \/ Run123(j) \/ Join136(j)
    \/ Exec156(j) \/ Exec165(j) \/ Exec171(j) \/ Exec172(j)
    \/ Run147(j) \/ Run148(j) \/ Run150(j)

WaiterStep(j, d) ==
    \/ Wait88(j, d) \/ Wait89(j, d) \/ WaitRecv(j, d)
    \/ State100(j, d) \/ State102(j, d) \/ State104(j, d) \/ Write131(j, d)

Next ==
    \/ \E j \in Jobs : RunStep(j)
    \/ \E j \in Jobs : \E d \in Jobs : WaiterStep(j, d)

Spec == Init /\ [][Next]_vars

\* Jobs that require no other job: Run() starts no waiter goroutine and goes
\* straight to execute()
InitExec ==
    /\ typ \in {[A |-> "restart", B |-> "start", C |-> "stop"],
                [A |-> "reload", B |-> "restart", C |-> "start"]}
    /\ unit = [A |-> "u1", B |-> "u2", C |-> "u2"]
    /\ requires = EmptyRel /\ requiredBy = EmptyRel
    /\ wants = EmptyRel /\ wantedBy = EmptyRel
    /\ conflicts = EmptyRel /\ conflictedBy = EmptyRel
    /\ after = EmptyRel /\ before = EmptyRel
    /\ FreshRun
    /\ FreshService

NextExec == \E j \in Jobs : RunStep(j)

SpecExec == InitExec /\ [][NextExec]_vars

NextService ==
    \/ \E text \in Texts : Define(text)
    \/ Start
    \/ Stop
    \/ ProcessEnds
    \/ WaitReturns

\* one service unit, no jobs scheduled
InitService ==
    /\ typ = [A |-> "start", B |-> "stop", C |-> "reload"]
    /\ unit = [A |-> "u1", B |-> "u1", C |-> "u1"]
    /\ wants = EmptyRel /\ wantedBy = EmptyRel
    /\ requires = EmptyRel /\ requiredBy = EmptyRel
    /\ conflicts = EmptyRel /\ conflictedBy = EmptyRel
    /\ after = EmptyRel /\ before = EmptyRel
    /\ FreshRun
    /\ FreshService

SpecService == InitService /\ [][NextService]_vars


\* ------------------------------------------------------------------ running
\* j.Run() returns in this step
Returns(j) == pc[j] # "idle" /\ pc'[j] = "idle"

\* a Run() of j has returned and none is in progress
Returned(j) == pc[j] = "idle" /\ retVal[j] # "none"

\* j is in a terminal state: executed, and its completion signal released
Terminal(j) == State(j) \in {"success", "failed"}

\* the one Run() of d has executed its operation with a nil result and
\* recorded it
SucceededRun(d) ==
    /\ runs[d] = 1
    /\ pc[d] \in {"r147", "r148", "r150", "idle"}
    /\ executed[d]
    /\ err[d] = Nil

\* the latest Run() of d has closed its completion signal and cleared it
Released(d) ==
    /\ runs[d] > 0
    /\ Chan(d, runs[d]) \in closed
    /\ waitch[d] = NilChan

\* C1: when J.Run() returns and a job in J.requires is failed, J is in the
\* terminal state failed (executed set, completion signal released) and its
\* result is the dependency-failed error.
C1_DepFailedJobIsFailed ==
    [][\A j \in Jobs :
         (Returns(j) /\ \E d \in requires[j] : Failed(d)) =>
            /\ retVal'[j] = ErrDepFail
            /\ executed'[j]
            /\ waitch'[j] = NilChan
            /\ err'[j] = ErrDepFail
            /\ (State(j))' = "failed"]_vars

\* C2: if a job in J.requires was failed when J's dependency waits were
\* joined, that run of J invokes no unit operation.
C2_NoOpAfterFailedDep ==
    \A j \in Jobs : failedAtJoin[j] # {} => ops[j] = <<>>

\* C3: J's unit operation is invoked only when every job in J.requires has
\* reached a terminal state.
C3_OpOnlyAfterDepsTerminal ==
    [][\A j \in Jobs :
         Len(ops'[j]) > Len(ops[j]) => \A d \in requires[j] : Terminal(d)]_vars

\* C4: if every job in J.requires had begun its run when J's waiter called
\* Wait() on it and completed that run with a success result, J.Run() invokes
\* J's unit operation and does not return the dependency-failed error.
C4_OpAfterSucceededDeps ==
    \A j \in Jobs :
      (Returned(j) /\ \A d \in requires[j] : wsaw[j][d] /\ SucceededRun(d)) =>
         /\ retVal[j] # ErrDepFail
         /\ ops[j] # <<>>

\* C5: once a job's state is success or failed it never changes again.
C5_TerminalStateIsStable ==
    [][\A j \in Jobs : Terminal(j) => (State(j))' = State(j)]_vars

\* C6: a Run() that has returned has recorded its outcome: executed is set,
\* the completion signal is closed and cleared, and the unit's active-job
\* reference no longer names the job.
C6_RunCompletes ==
    \A j \in Jobs :
      Returned(j) =>
         /\ executed[j]
         /\ err[j] = retVal[j]
         /\ Released(j)
         /\ unitJob[unit[j]] # j

\* C7: a Wait() caller that is in the receive on a job whose run has released
\* its completion signal can return: the channel it receives from is closed.
\* (A receive from the nil channel never returns, and nothing changes the
\* channel a caller already receives from.)
C7_WaitReturnsAfterRelease ==
    \A j \in Jobs : \A d \in Jobs :
      (wpc[j][d] = "recv" /\ Released(d)) => wch[j][d] \in closed

\* the completion signal of j's latest Run() has been closed
SignalReleased(j) == runs[j] > 0 /\ Chan(j, runs[j]) \in closed

\* j's completion signal is installed and not yet closed
SignalInstalled(j) == waitch[j] # NilChan /\ waitch[j] \notin closed

\* C14: the unit's active-job reference is cleared before the completion
\* signal is released: no step leads to a state where J's signal is released
\* while J.unit's active-job reference still points at J, and no step clears
\* a reference that points at J while J's signal is installed and unreleased.
C14_ClearedBeforeRelease ==
    [][\A j \in Jobs :
         /\ SignalReleased(j)' => unitJob'[unit[j]] # j
         /\ (unitJob[unit[j]] = j /\ unitJob'[unit[j]] = NoJob) =>
              ~SignalInstalled(j)']_vars

\* a Run() call of j is in progress
InRun(j) == pc[j] # "idle"

\* C15: the unit's active-job reference is exclusively owned by the running
\* job: a job in state running has its unit's reference equal to itself, and
\* when no Run() of a job of the unit is in progress the reference is nil,
\* also after a run aborted by a dependency failure.
C15_ActiveJobOwnedByRunningJob ==
    /\ \A j \in Jobs : State(j) = "running" => unitJob[unit[j]] = j
    /\ \A u \in Units :
         (\A j \in Jobs : unit[j] = u => ~InRun(j)) => unitJob[u] = NoJob

\* C19: the waiter goroutines' writes to Run()'s shared err are synchronized:
\* no two waiters of one Run() stand at the write at the same time, a
\* waiter's write leaves the dependency-failed error in the variable, and the
\* error stays there until the join reads it.
C19_WritesSynchronized ==
    [][\A j \in Jobs :
         /\ \A d1 \in Jobs : \A d2 \in Jobs \ {d1} :
              ~(wpc'[j][d1] = "w131" /\ wpc'[j][d2] = "w131")
         /\ \A d \in Jobs :
              (wpc[j][d] = "w131" /\ wpc'[j][d] = "done") => runErr'[j] = ErrDepFail
         /\ (pc[j] = "r136" /\ runErr[j] = ErrDepFail) => runErr'[j] = ErrDepFail]_vars

\* the latest Run() of j has finished execute()
Executed(j) == ops[j] # <<>> /\ pc[j] \in {"r147", "r148", "r150", "idle"}

\* C17: a restart job invokes unit stop first and unit start only after stop
\* returned no error; when stop fails, start is never invoked, the job is
\* marked executed, its recorded result is the stop error and, once Run() has
\* returned, its state is failed.
C17_RestartStopsThenStarts ==
    \A j \in Jobs : typ[j] = "restart" =>
       /\ ops[j] # <<>> => ops[j][1].op = "stop"
       /\ Len(ops[j]) >= 2 =>
            /\ Len(ops[j]) = 2
            /\ ops[j][1].ret = Nil
            /\ ops[j][2].op = "start"
       /\ (Executed(j) /\ ops[j][1].ret # Nil) =>
            /\ Len(ops[j]) = 1
            /\ executed[j]
            /\ err[j] = ops[j][1].ret
            /\ pc[j] = "idle" => State(j) = "failed"

\* the restart job A has returned from a Run() whose unit stop failed
C17_Witness ==
    /\ typ["A"] = "restart"
    /\ pc["A"] = "idle"
    /\ ops["A"] = <<[op |-> "stop", ret |-> ErrOp]>>
    /\ executed["A"]
    /\ err["A"] = ErrOp
    /\ State("A") = "failed"

\* ------------------------------------------------------------------ the service unit
\* a step that is a call of the named method of the service unit
SvcCall(op) == ncalls' # ncalls /\ svcRet'.op = op

\* C11: for a defined simple unit, Sub()/Active() follow the process: dead
\* and Inactive while nothing is launched; running and Active from the launch
\* until Wait has consumed the termination; after a consumed successful exit,
\* exited and Active with RemainAfterExit, dead and Inactive without.
C11_SimpleUnitLifecycle ==
    (cmd # NilCmd /\ definition.Type = "simple") =>
       /\ osProc = "none" =>
            (Sub = Returned_("dead") /\ Active = Returned_("Inactive"))
       /\ (osProc # "none" /\ waitPending) =>
            (Sub = Returned_("running") /\ Active = Returned_("Active"))
       /\ (osProc = "exit0" /\ ~waitPending) =>
            IF definition.RemainAfterExit
              THEN Sub = Returned_("exited") /\ Active = Returned_("Active")
              ELSE Sub = Returned_("dead") /\ Active = Returned_("Inactive")

\* a simple unit with RemainAfterExit whose process exited with code 0 and
\* was waited for
C11_Witness ==
    /\ cmd # NilCmd
    /\ definition.Type = "simple"
    /\ definition.RemainAfterExit
    /\ osProc = "exit0"
    /\ ~waitPending
    /\ Sub = Returned_("exited")

\* C12: Stop() on a unit on which no process was ever launched returns the
\* not-started error as a value, kills nothing and leaves the sub state as
\* it was.
C12_StopBeforeStart ==
    [][(SvcCall("Stop") /\ ~everLaunched) =>
         /\ svcRet'.ret = Returned_(ErrNotStarted)
         /\ osProc' = osProc
         /\ Sub' = Sub]_vars

\* the type a definition text declares, simple when it declares none
DeclaredType(text) == IF text.Type = "" THEN "simple" ELSE text.Type

\* the entries of a MultiError
Entries(merr) == {merr[i] : i \in 1..Len(merr)}

\* C13: Define's multi-error holds an "ExecStart: not set" entry whenever
\* ExecStart is empty and a "Type: not supported" entry whenever the declared
\* type is neither oneshot nor simple, also when both hold; and a failed
\* Define leaves the stored definition and the process adapter as they were.
C13_DefineAggregates ==
    [][(SvcCall("Define") /\ svcRet'.text.parses) =>
         LET text == svcRet'.text
         IN /\ text.ExecStart = "" =>
                 <<"ExecStart", ErrNotSet>> \in Entries(svcRet'.merr)
            /\ DeclaredType(text) \notin {"oneshot", "simple"} =>
                 <<"Type", ErrNotSupported>> \in Entries(svcRet'.merr)
            /\ svcRet'.ret # Returned_(Nil) =>
                 UNCHANGED <<definition, cmd, process, processState>>]_vars

\* C18: when the process of a defined unit has terminated without success,
\* Sub() is failed and Active() is Failed; Sub() is exited or dead only for a
\* process that terminated successfully.
C18_UnsuccessfulExitIsFailed ==
    cmd # NilCmd =>
       /\ processState \in {"exitN", "signaled"} =>
            (Sub = Returned_("failed") /\ Active = Returned_("Failed"))
       /\ (processState # NilState /\ Sub \in {Returned_("exited"), Returned_("dead")}) =>
            processState = "exit0"

\* ------------------------------------------------------------------ merging
\* a step that is a mergeWith call; mergeRet' names its receiver and argument
MergeCall == merges' # merges

\* the compatibility table of the merge algebra, as triples
\* <<existing, incoming, merged>>
CompatTable ==
    {<<"start", "start", "start">>, <<"start", "reload", "reload">>,
     <<"start", "restart", "restart">>, <<"reload", "start", "reload">>,
     <<"reload", "restart", "restart">>, <<"restart", "start", "restart">>,
     <<"restart", "reload", "restart">>}

\* C8: for every pair (existing type, incoming type), mergeWith succeeds
\* exactly when the pair has an entry in the compatibility table, and then
\* sets the existing job's type to that entry; every other pair fails with
\* the unmergeable error.
C8_MergeFollowsTable ==
    [][MergeCall =>
         LET a == typ[mergeRet'.j]
             b == typ[mergeRet'.other]
         IN IF \E t \in JobTypes : <<a, b, t>> \in CompatTable
              THEN /\ mergeRet'.ret = Nil
                   /\ <<a, b, typ'[mergeRet'.j]>> \in CompatTable
              ELSE mergeRet'.ret = ErrUnmergeable]_vars

\* a reload job with an incoming start job merged into it: it stays reload
C8_Witness ==
    /\ mergeRet.j = "A" /\ mergeRet.other = "B" /\ mergeRet.ret = Nil
    /\ typ["A"] = "reload" /\ typ["B"] = "start"

\* C9: when mergeWith returns the unmergeable error, neither job is changed:
\* type, the eight relation and ordering sets, executed, result and
\* completion signal of both jobs are as before the call.
C9_FailedMergeChangesNothing ==
    [][(MergeCall /\ mergeRet'.ret = ErrUnmergeable) =>
         UNCHANGED <<typ, unit, wants, requires, conflicts, wantedBy, requiredBy,
                     conflictedBy, after, before, executed, err, waitch>>]_vars

\* a stop job refused the merge of a job that has relations
C9_Witness ==
    /\ mergeRet.j = "A" /\ mergeRet.other = "B" /\ mergeRet.ret = ErrUnmergeable
    /\ typ["A"] = "stop"
    /\ requires["B"] # {}

\* C10: when mergeWith succeeds, each of the existing job's six relation sets
\* equals the union of its previous content and the incoming job's
\* corresponding set, and the incoming job's sets and type are unchanged.
C10_MergeUnionsRelations ==
    [][(MergeCall /\ mergeRet'.ret = Nil) =>
         LET j == mergeRet'.j
             o == mergeRet'.other
         IN /\ wants'[j] = wants[j] \cup wants[o]
            /\ requires'[j] = requires[j] \cup requires[o]
            /\ conflicts'[j] = conflicts[j] \cup conflicts[o]
            /\ wantedBy'[j] = wantedBy[j] \cup wantedBy[o]
            /\ requiredBy'[j] = requiredBy[j] \cup requiredBy[o]
            /\ conflictedBy'[j] = conflictedBy[j] \cup conflictedBy[o]
            /\ wants'[o] = wants[o] /\ requires'[o] = requires[o]
            /\ conflicts'[o] = conflicts[o] /\ wantedBy'[o] = wantedBy[o]
            /\ requiredBy'[o] = requiredBy[o] /\ conflictedBy'[o] = conflictedBy[o]
            /\ typ'[o] = typ[o]]_vars

\* A, which required B, has absorbed B's requirement of C
C10_Witness ==
    /\ mergeRet.j = "A" /\ mergeRet.other = "B" /\ mergeRet.ret = Nil
    /\ requires["A"] = {"B", "C"}
    /\ requires["B"] = {"C"}

\* the six relation sets of job j
RelationSets(j) == {wants[j], requires[j], conflicts[j],
                    wantedBy[j], requiredBy[j], conflictedBy[j]}

\* C16: no job's relation sets ever contain the job itself: after any
\* sequence of mergeWith calls on jobs that started without self-references,
\* none of a job's six relation sets contains that job.
C16_NoSelfReference == \A j \in Jobs : \A r \in RelationSets(j) : j \notin r

\* C20 as stated: an incoming reload job merges into an existing restart job
\* with merged type restart, while an incoming restart job is refused by an
\* existing reload job with the unmergeable error and the reload job keeps
\* its type.
C20_ReloadRestartAsymmetric ==
    [][MergeCall =>
         LET j == mergeRet'.j
             o == mergeRet'.other
         IN /\ (typ[j] = "restart" /\ typ[o] = "reload") =>
                 (mergeRet'.ret = Nil /\ typ'[j] = "restart")
            /\ (typ[j] = "reload" /\ typ[o] = "restart") =>
                 (mergeRet'.ret = ErrUnmergeable /\ typ'[j] = "reload")]_vars

\* C20, amended: merging is symmetric on the reload/restart pair: an incoming
\* reload job merged into an existing restart job and an incoming restart job
\* merged into an existing reload job both succeed, the existing job's type
\* becomes restart and the incoming job keeps its type.
C20_ReloadRestartSymmetric ==
    [][MergeCall =>
         LET j == mergeRet'.j
             o == mergeRet'.other
         IN ({typ[j], typ[o]} = {"reload", "restart"}) =>
               /\ mergeRet'.ret = Nil
               /\ typ'[j] = "restart"
               /\ typ'[o] = typ[o]]_vars

\* an existing reload job has absorbed an incoming restart job
C20_Witness ==
    /\ mergeRet.was = "reload" /\ mergeRet.with = "restart"
    /\ mergeRet.ret = Nil
    /\ typ[mergeRet.j] = "restart"

====
